---- MODULE Spec2Model ----
(***************************************************************************)
(* r2sync: the reconciliation engine of the Obsidian <-> R2 sync plugin.   *)
(*                                                                         *)
(* The model follows SyncManager (src/src/settings.ts), the object-store   *)
(* client R2ServiceObsidian (src/src/r2ServiceObsidian.ts) and the plugin  *)
(* entry point R2SyncPlugin (src/unnamed/part_003).  Paths, keys and file  *)
(* contents are strings, handled with the string operations of the code    *)
(* (startsWith, substring, split).  Async methods are cut at their await   *)
(* points: one action per resumption.                                      *)
(***************************************************************************)
EXTENDS Integers, Sequences, FiniteSets, TLC

VARIABLES
    settings,        \* SyncManager.settings: baseFolder, bidirectionalSync, credentials present
    vaultName,       \* app.vault.getName()
    r2Service,       \* TRUE when SyncManager.r2Service has been constructed
    syncInProgress,  \* SyncManager.syncInProgress, the in-flight guard
    mirror,          \* settings.syncInProgress, the copy of the guard kept in the settings object
    lastSyncTime,    \* settings.lastSyncTime; 0 is the empty string, n > 0 a timestamp
    now,             \* the wall clock read by new Date()
    local,           \* the vault: file path -> content
    folders,         \* the vault: set of folder paths
    remote,          \* the bucket: object key -> content
    pc,              \* per caller: where its async call is suspended
    ctx,             \* per caller: the locals of its call
    result,          \* per caller: the value the call returned (when pc = "done")
    snap,            \* history: the vault and the bucket when the running pass acquired the guard
    dirty,           \* history: the vault or the bucket was changed from outside during the running pass
    puts,            \* history: <<key, content>> of every put the last pass issued
    writes,          \* history: local paths the last pass created or modified
    last,            \* history: the pass that finished last (operation, outcome)
    fresh,           \* history: local paths edited since their last upload, remote object untouched since
    quiescent,       \* history: the last pass was a fully successful syncAllFiles and nothing changed since
    envSteps,        \* number of changes made from outside so far (bounded by MaxEnv)
    recording,       \* history: TRUE in the behaviours that keep snap, puts, writes and quiescent
    markers,         \* the bucket under backups/: object key -> marker body
    bop,             \* the backup operation that returned last, and what it returned
    syncTimeout,     \* R2SyncPlugin.syncTimeout: handle of the pending timer, 0 for null
    debounceId,      \* R2SyncPlugin.debounceId
    timers,          \* the timers set with window.setTimeout and not yet run or cleared
    calls,           \* history: the debouncedSync calls so far (file, time)
    fired,           \* history: the syncFile invocations made by timer callbacks
    lastDelete,      \* history: the deleteRemoteForFile call that returned last
    saved,           \* the settings file: the mutable fields as saveData wrote them last
    registered,      \* the modify / create / delete handlers were registered by onload
    mp, mk, mr, mstage   \* PathKeyMapper harness: path in, key, path out, stage

vars == <<settings, vaultName, r2Service, syncInProgress, mirror, lastSyncTime, now,
          local, folders, remote, pc, ctx, result,
          snap, dirty, puts, writes, last, fresh, quiescent, envSteps, recording,
          markers, bop, syncTimeout, debounceId, timers, calls, fired, lastDelete,
          saved, registered,
          mp, mk, mr, mstage>>

mapVars == <<mp, mk, mr, mstage>>
backupVars == <<markers, bop>>
debVars == <<syncTimeout, debounceId, timers, calls, fired>>
pluginVars == <<saved, registered>>
callVars == <<mp, mk, mr, mstage, envSteps, recording, markers, bop, lastDelete,
              saved, registered>>
auxVars == <<mp, mk, mr, mstage, envSteps, recording, markers, bop, lastDelete,
             saved, registered,
             syncTimeout, debounceId, timers, calls, fired>>
engineVars == <<settings, vaultName, r2Service, syncInProgress, mirror, lastSyncTime, now,
                local, folders, remote, pc, ctx, result,
                snap, dirty, puts, writes, last, fresh, quiescent, envSteps, recording,
                markers, bop, syncTimeout, debounceId, timers, calls, fired, lastDelete,
                saved, registered>>
histVars == <<snap, dirty, puts, writes, last, fresh, quiescent>>

(***************************************************************************)
(* Bounds                                                                  *)
(***************************************************************************)
NumProcs == 2      \* concurrent callers of the SyncManager (UI command, timer, debounce)
MaxNow == 2        \* clock values 1..MaxNow
MaxEnv == 1        \* edits by the user and writes by other devices in one behaviour

Procs == 1..NumProcs

(***************************************************************************)
(* String helpers: String.prototype.startsWith / substring / split          *)
(***************************************************************************)
startsWith(s, pre) ==
    /\ Len(s) >= Len(pre)
    /\ SubSeq(s, 1, Len(pre)) = pre

\* s.substring(n): drop the first n characters
substring(s, n) == SubSeq(s, n + 1, Len(s))

\* index of the last "/" in s, 0 when there is none
RECURSIVE LastSlashFrom(_, _)
LastSlashFrom(s, i) ==
    IF i = 0 THEN 0
    ELSE IF SubSeq(s, i, i) = "/" THEN i
    ELSE LastSlashFrom(s, i - 1)

LastSlash(s) == LastSlashFrom(s, Len(s))

\* TFile.name: the last path segment
fileName(path) == substring(path, LastSlash(path))

\* pathParts.slice(0, -1).join('/'): the path without its last segment
dirName(path) == IF LastSlash(path) = 0 THEN "" ELSE SubSeq(path, 1, LastSlash(path) - 1)

\* index of the last "." in s, 0 when there is none
RECURSIVE LastDotFrom(_, _)
LastDotFrom(s, i) ==
    IF i = 0 THEN 0
    ELSE IF SubSeq(s, i, i) = "." THEN i
    ELSE LastDotFrom(s, i - 1)

\* TFile.extension: what follows the last "." of the file name
extension(path) ==
    LET n == fileName(path)
        d == LastDotFrom(n, Len(n))
    IN IF d = 0 THEN "" ELSE substring(n, d)

(***************************************************************************)
(* PathKeyMapper: SyncManager.getFileKey / getLocalPathFromKey             *)
(***************************************************************************)
\* const baseFolder = this.settings.baseFolder || vaultName
effectiveBase(base, vault) == IF base # "" THEN base ELSE vault

getFileKeyIn(path, base, vault) ==
    LET baseFolder == effectiveBase(base, vault) IN
    IF baseFolder # "" /\ startsWith(path, baseFolder \o "/")
        THEN substring(path, Len(baseFolder) + 1)
    ELSE IF baseFolder # "" /\ path = baseFolder
        THEN fileName(path)
    ELSE IF baseFolder # ""
        THEN baseFolder \o "/" \o path
    ELSE path

getLocalPathFromKeyIn(key, base, vault) ==
    LET baseFolder == effectiveBase(base, vault) IN
    IF startsWith(key, baseFolder \o "/")
        THEN substring(key, Len(baseFolder) + 1)
    ELSE IF key = baseFolder
        THEN ""
    ELSE key

getFileKey(path) == getFileKeyIn(path, settings.baseFolder, vaultName)
getLocalPathFromKey(key) == getLocalPathFromKeyIn(key, settings.baseFolder, vaultName)

(***************************************************************************)
(* The vault (Obsidian's local file store) and the bucket                  *)
(***************************************************************************)
\* every proper directory prefix of a path
Dirs(path) == { SubSeq(path, 1, i - 1) : i \in { j \in 1..Len(path) : SubSeq(path, j, j) = "/" } } \ {""}

\* f with x mapped to v, x added to the domain when it is not there
Put(f, x, v) == [ y \in DOMAIN f \cup {x} |-> IF y = x THEN v ELSE f[y] ]

\* f without x
Remove(f, x) == [ y \in DOMAIN f \ {x} |-> f[y] ]

EmptyMap == [ y \in {} |-> "" ]

\* app.vault.configDir
configDir == ".obsidian"

\* R2ServiceObsidian.listFiles(prefix): ListObjectsV2 with Prefix, every key of the bucket
\* (backup markers included) that starts with the prefix
listFiles(prefix) == { k \in DOMAIN remote \cup DOMAIN markers : startsWith(k, prefix) }

\* SyncManager.getFilesToSync
getFilesToSync ==
    LET baseFolder == effectiveBase(settings.baseFolder, vaultName) IN
    { path \in DOMAIN local :
        /\ ~startsWith(path, configDir \o "/")
        /\ ~startsWith(path, "backups/")
        /\ \/ settings.baseFolder = ""
           \/ baseFolder = vaultName
           \/ startsWith(path, baseFolder \o "/")
           \/ path = baseFolder }

\* the extension allow-list of deleteRemoteForFile
isSupportedFile(path) ==
    extension(path) \in {"md", "png", "jpg", "jpeg", "gif", "svg", "webp", "pdf", "txt"}

(***************************************************************************)
(* SyncManager: the in-flight guard                                        *)
(***************************************************************************)
ctx0 == [ op |-> "none", file |-> "", keysLeft |-> {}, filesLeft |-> {},
          remoteSet |-> {}, successCount |-> 0, dlRet |-> TRUE,
          ok |-> TRUE, startQ |-> FALSE,    \* ok, startQ: history (every call so far succeeded; the pass began quiescent)
          gets |-> {} ]                     \* history: the keys downloadFile was called with

NoLast == [ op |-> "none", ok |-> FALSE, startQ |-> FALSE, uploaded |-> 0 ]

NoSnap == [ local |-> EmptyMap, remote |-> EmptyMap, valid |-> FALSE ]

\* a guard check that forgets the in-flight flag
busyNoGuard == ~r2Service

\* if (this.syncInProgress || !this.r2Service) return false;
busy == syncInProgress \/ ~r2Service

\* the early return placed inside the try block: the finally block clears the guard
RejectInsideTry(p) ==
    /\ pc' = [pc EXCEPT ![p] = "rejected"]
    /\ result' = [result EXCEPT ![p] = FALSE]
    /\ syncInProgress' = FALSE
    /\ mirror' = FALSE
    /\ UNCHANGED <<settings, vaultName, r2Service, lastSyncTime, now,
                   local, folders, remote, ctx, histVars, callVars>>

\* the early "return false" of a guarded operation: nothing but the caller's result changes
Reject(p) ==
    /\ pc' = [pc EXCEPT ![p] = "rejected"]
    /\ result' = [result EXCEPT ![p] = FALSE]
    /\ UNCHANGED <<settings, vaultName, r2Service, syncInProgress, mirror, lastSyncTime, now,
                   local, folders, remote, ctx, histVars, callVars>>

\* this.syncInProgress = true; this.settings.syncInProgress = true;
Acquire(p, op, file, next) ==
    /\ syncInProgress' = TRUE
    /\ mirror' = TRUE
    /\ pc' = [pc EXCEPT ![p] = next]
    /\ ctx' = [ctx EXCEPT ![p] = [ctx0 EXCEPT !.op = op, !.file = file, !.startQ = quiescent]]
    /\ snap' = IF recording THEN [ local |-> local, remote |-> remote, valid |-> TRUE ] ELSE NoSnap
    /\ dirty' = FALSE
    /\ puts' = {}
    /\ writes' = {}
    /\ quiescent' = FALSE
    /\ last' = NoLast
    /\ UNCHANGED <<settings, vaultName, r2Service, lastSyncTime, now,
                   local, folders, remote, result, fresh, callVars>>

\* return res, through finally { this.syncInProgress = false; this.settings.syncInProgress = false; }
\* (ok: every collaborator call of the pass succeeded, recorded in the history)
Finish(p, res, ok) ==
    /\ pc' = [pc EXCEPT ![p] = "done"]
    /\ result' = [result EXCEPT ![p] = res]
    /\ syncInProgress' = FALSE
    /\ mirror' = FALSE
    /\ ctx' = [ctx EXCEPT ![p] = ctx0]
    /\ last' = [ op |-> ctx[p].op, ok |-> ok, startQ |-> ctx[p].startQ,
                 uploaded |-> ctx[p].successCount ]

\* a catch block that returns without a finally block: the guard stays set
CaughtNoFinally(p) ==
    /\ pc' = [pc EXCEPT ![p] = "done"]
    /\ result' = [result EXCEPT ![p] = FALSE]
    /\ syncInProgress' = syncInProgress
    /\ mirror' = mirror
    /\ ctx' = [ctx EXCEPT ![p] = ctx0]
    /\ last' = [ op |-> ctx[p].op, ok |-> FALSE, startQ |-> ctx[p].startQ,
                 uploaded |-> ctx[p].successCount ]

\* catch (error) { ...; return false; } of a guarded operation, through the finally block
Caught(p) == Finish(p, FALSE, FALSE)

\* the history records what a pass does as long as nothing changes from outside
Record(set, x) == IF dirty \/ ~recording THEN set ELSE set \cup {x}

\* r2Service.uploadFile(key, content, contentType) of the file at path, with outcome up
\* (TRUE: the object is written; FALSE: the request failed and uploadFile returned false)
uploadFile(path, up) ==
    LET key == getFileKey(path) IN
    /\ remote' = IF up THEN Put(remote, key, local[path]) ELSE remote
    /\ puts' = Record(puts, <<key, local[path]>>)
    /\ fresh' = IF up THEN fresh \ {path} ELSE fresh

(***************************************************************************)
(* SyncManager.syncFile                                                    *)
(***************************************************************************)
SyncFileCall(p, file) ==
    /\ pc[p] = "idle"
    /\ file \in DOMAIN local
    /\ IF busy THEN Reject(p) ELSE Acquire(p, "syncFile", file, "sf_upload")
    /\ UNCHANGED debVars

\* readFileContentWithType, getFileKey, uploadFile, then the finally block
SyncFileUpload(p) ==
    /\ pc[p] = "sf_upload"
    /\ \E rd \in {"ok", "throw"}, up \in BOOLEAN :
        LET file == ctx[p].file IN
        IF rd = "throw" \/ file \notin DOMAIN local
        THEN /\ Caught(p)
             /\ UNCHANGED <<lastSyncTime, remote, puts, fresh>>
        ELSE /\ uploadFile(file, up)
             /\ lastSyncTime' = IF up THEN now ELSE lastSyncTime
             /\ Finish(p, up, up)
    /\ UNCHANGED <<settings, vaultName, r2Service, now, local, folders,
                   snap, dirty, writes, quiescent, auxVars>>

(***************************************************************************)
(* SyncManager.downloadRemoteChanges: the download phase                   *)
(***************************************************************************)
\* const remoteFiles = await this.r2Service.listFiles(baseFolder); listFiles returns [] on error
DownloadList(p) ==
    /\ pc[p] = "dl_list"
    /\ IF ~r2Service \/ ~settings.bidirectionalSync
       THEN ctx' = [ctx EXCEPT ![p].keysLeft = {}, ![p].dlRet = FALSE, ![p].ok = FALSE]
       ELSE \E ls \in BOOLEAN :
               ctx' = [ctx EXCEPT
                          ![p].keysLeft = IF ls THEN listFiles(effectiveBase(settings.baseFolder, vaultName))
                                                ELSE {},
                          ![p].ok = ls]
    /\ pc' = [pc EXCEPT ![p] = "dl_key"]
    /\ UNCHANGED <<settings, vaultName, r2Service, syncInProgress, mirror, lastSyncTime, now,
                   local, folders, remote, result, histVars, auxVars>>

\* a download loop that does not skip the reserved prefix
isBackupKeyNever(remoteKey) == FALSE

\* if (remoteKey.startsWith('backups/')) continue;
isBackupKey(remoteKey) == startsWith(remoteKey, "backups/")

\* the body of "for (const remoteKey of remoteFiles)" for one key; got: downloadFile
\* returned the object (FALSE: it returned null); io: the vault call succeeded or threw
DownloadOne(p, remoteKey, got, io) ==
        LET localPath == getLocalPathFromKey(remoteKey)
            fetched == got /\ remoteKey \in DOMAIN remote
            remoteContent == IF fetched THEN remote[remoteKey] ELSE ""
            rest == ctx[p].keysLeft \ {remoteKey}
            dirPath == dirName(localPath)
            \* the catch block of downloadRemoteChanges: the loop is left
            asked == ctx[p].gets \cup {remoteKey}
            thrown == /\ ctx' = [ctx EXCEPT ![p].keysLeft = {}, ![p].dlRet = FALSE, ![p].ok = FALSE,
                                            ![p].gets = asked]
                      /\ UNCHANGED <<local, folders, writes, fresh>>
            skip(okNow, keys) ==
                      /\ ctx' = [ctx EXCEPT ![p].keysLeft = rest, ![p].ok = @ /\ okNow,
                                            ![p].gets = keys]
                      /\ UNCHANGED <<local, folders, writes, fresh>>
        IN
        IF isBackupKey(remoteKey) THEN skip(TRUE, ctx[p].gets)
        ELSE IF localPath \in DOMAIN local
        THEN \* File exists locally
             IF remoteContent = "" THEN skip(fetched, asked)
             ELSE IF io = "throw" THEN thrown
             ELSE IF remoteContent # local[localPath]
             THEN /\ local' = Put(local, localPath, remoteContent)
                  /\ writes' = Record(writes, localPath)
                  /\ fresh' = fresh \ {localPath}
                  /\ ctx' = [ctx EXCEPT ![p].keysLeft = rest, ![p].gets = asked]
                  /\ UNCHANGED folders
             ELSE skip(TRUE, asked)
        ELSE \* File doesn't exist locally
             IF remoteContent = "" THEN skip(fetched, asked)
             ELSE IF io = "throw" \/ localPath = "" \/ localPath \in folders
                     \/ dirPath \in DOMAIN local
             THEN thrown
             ELSE /\ folders' = IF dirPath # "" /\ dirPath \notin folders
                                THEN folders \cup Dirs(localPath) ELSE folders
                  /\ local' = Put(local, localPath, remoteContent)
                  /\ writes' = Record(writes, localPath)
                  /\ ctx' = [ctx EXCEPT ![p].keysLeft = rest, ![p].gets = asked]
                  /\ UNCHANGED fresh

\* one iteration of "for (const remoteKey of remoteFiles)"
DownloadKey(p) ==
    /\ pc[p] = "dl_key"
    /\ ctx[p].keysLeft # {}
    /\ \E remoteKey \in ctx[p].keysLeft, got \in BOOLEAN, io \in {"ok", "throw"} :
          DownloadOne(p, remoteKey, got, io)
    /\ UNCHANGED <<settings, vaultName, r2Service, syncInProgress, mirror, lastSyncTime, now,
                   remote, pc, result, snap, dirty, puts, last, quiescent, auxVars>>

\* a downloadRemoteChanges that clears the guard when it returns, as the guarded
\* operations do in their finally block
DownloadDoneReleases(p) ==
    /\ pc[p] = "dl_key"
    /\ ctx[p].keysLeft = {}
    /\ IF ctx[p].op = "syncAllFiles"
       THEN /\ pc' = [pc EXCEPT ![p] = "up_enum"]
            /\ syncInProgress' = FALSE
            /\ mirror' = FALSE
            /\ UNCHANGED <<result, ctx, last>>
       ELSE Finish(p, ctx[p].dlRet, ctx[p].ok)
    /\ UNCHANGED <<settings, vaultName, r2Service, lastSyncTime, now,
                   local, folders, remote, snap, dirty, puts, writes, fresh, quiescent, auxVars>>

\* the loop is over and downloadRemoteChanges returns: back in syncAllFiles (line 155),
\* to the caller of a direct call, or through the finally block of downloadAndSync
DownloadDone(p) ==
    /\ pc[p] = "dl_key"
    /\ ctx[p].keysLeft = {}
    /\ IF ctx[p].op = "syncAllFiles"
       THEN /\ pc' = [pc EXCEPT ![p] = "up_enum"]
            /\ UNCHANGED <<syncInProgress, mirror, result, ctx, last>>
       ELSE IF ctx[p].op = "downloadRemoteChanges"
       THEN /\ pc' = [pc EXCEPT ![p] = "done"]
            /\ result' = [result EXCEPT ![p] = ctx[p].dlRet]
            /\ ctx' = [ctx EXCEPT ![p] = ctx0]
            /\ UNCHANGED <<syncInProgress, mirror, last>>
       ELSE Finish(p, ctx[p].dlRet, ctx[p].ok)
    /\ UNCHANGED <<settings, vaultName, r2Service, lastSyncTime, now,
                   local, folders, remote, snap, dirty, puts, writes, fresh, quiescent, auxVars>>

\* downloadRemoteChanges() called on its own (the method is public): the test of line 195
\* and, past it, the listing request; the guard is not consulted
DownloadRemoteChangesCall(p) ==
    /\ pc[p] = "idle"
    /\ IF ~r2Service \/ ~settings.bidirectionalSync
       THEN Reject(p)
       ELSE /\ pc' = [pc EXCEPT ![p] = "dl_list"]
            /\ ctx' = [ctx EXCEPT ![p] = [ctx0 EXCEPT !.op = "downloadRemoteChanges"]]
            /\ UNCHANGED <<settings, vaultName, r2Service, syncInProgress, mirror, lastSyncTime, now,
                           local, folders, remote, result, histVars, callVars>>
    /\ UNCHANGED debVars

(***************************************************************************)
(* SyncManager.downloadAndSync                                             *)
(***************************************************************************)
DownloadAndSyncCall(p) ==
    /\ pc[p] = "idle"
    /\ IF busy \/ ~settings.bidirectionalSync
       THEN Reject(p)
       ELSE Acquire(p, "downloadAndSync", "", "dl_list")
    /\ UNCHANGED debVars

(***************************************************************************)
(* SyncManager.syncAllFiles                                                *)
(***************************************************************************)
SyncAllFilesCall(p) ==
    /\ pc[p] = "idle"
    /\ IF busy THEN Reject(p)
       ELSE Acquire(p, "syncAllFiles", "",
                    IF settings.bidirectionalSync THEN "dl_list" ELSE "up_enum")
    /\ UNCHANGED debVars

\* const files = this.getFilesToSync(); let successCount = 0;
UploadEnum(p) ==
    /\ pc[p] = "up_enum"
    /\ ctx' = [ctx EXCEPT ![p].filesLeft = getFilesToSync, ![p].successCount = 0]
    /\ pc' = [pc EXCEPT ![p] = "up_file"]
    /\ UNCHANGED <<settings, vaultName, r2Service, syncInProgress, mirror, lastSyncTime, now,
                   local, folders, remote, result, histVars, auxVars>>

\* the body of "for (const file of files)" for one file: read (rd: the vault's answer when
\* the file is there; the read of a file that is gone throws), getFileKey, uploadFile (up)
UploadOne(p, file, rd, up) ==
    IF rd = "throw" \/ file \notin DOMAIN local
    THEN /\ Caught(p)
         /\ UNCHANGED <<remote, puts, fresh>>
    ELSE /\ uploadFile(file, up)
         /\ ctx' = [ctx EXCEPT ![p].filesLeft = @ \ {file},
                               ![p].successCount = IF up THEN @ + 1 ELSE @,
                               ![p].ok = @ /\ up]
         /\ UNCHANGED <<pc, result, syncInProgress, mirror, last>>

\* one iteration of "for (const file of files)": read, getFileKey, uploadFile
UploadFile(p) ==
    /\ pc[p] = "up_file"
    /\ ctx[p].filesLeft # {}
    /\ \E file \in ctx[p].filesLeft, rd \in {"ok", "throw"}, up \in BOOLEAN :
          UploadOne(p, file, rd, up)
    /\ UNCHANGED <<settings, vaultName, r2Service, lastSyncTime, now, local, folders,
                   snap, dirty, writes, quiescent, auxVars>>

\* this.settings.lastSyncTime = new Date().toISOString(); return successCount > 0;
SyncAllFilesFinish(p) ==
    /\ pc[p] = "up_file"
    /\ ctx[p].filesLeft = {}
    /\ lastSyncTime' = now
    /\ Finish(p, ctx[p].successCount > 0, ctx[p].ok)
    /\ quiescent' = (recording /\ ctx[p].ok /\ ~dirty)
    /\ UNCHANGED <<settings, vaultName, r2Service, now, local, folders, remote,
                   snap, dirty, puts, writes, fresh, auxVars>>

(***************************************************************************)
(* SyncManager.syncMissingFiles                                            *)
(***************************************************************************)
SyncMissingFilesCall(p) ==
    /\ pc[p] = "idle"
    /\ IF busy THEN Reject(p) ELSE Acquire(p, "syncMissingFiles", "", "sm_list")
    /\ UNCHANGED debVars

\* files = getFilesToSync(); remoteSet = new Set(await listFiles(baseFolder))
MissingList(p) ==
    /\ pc[p] = "sm_list"
    /\ \E ls \in BOOLEAN :
           ctx' = [ctx EXCEPT
                      ![p].filesLeft = getFilesToSync,
                      ![p].remoteSet = IF ls THEN listFiles(effectiveBase(settings.baseFolder, vaultName))
                                             ELSE {},
                      ![p].ok = ls]
    /\ pc' = [pc EXCEPT ![p] = "sm_file"]
    /\ UNCHANGED <<settings, vaultName, r2Service, syncInProgress, mirror, lastSyncTime, now,
                   local, folders, remote, result, histVars, auxVars>>

\* one iteration of the loop: upload the file when its key is not in remoteSet
MissingFile(p) ==
    /\ pc[p] = "sm_file"
    /\ ctx[p].filesLeft # {}
    /\ \E file \in ctx[p].filesLeft, rd \in {"ok", "throw"}, up \in BOOLEAN :
        IF getFileKey(file) \in ctx[p].remoteSet
        THEN /\ ctx' = [ctx EXCEPT ![p].filesLeft = @ \ {file}]
             /\ UNCHANGED <<pc, result, syncInProgress, mirror, remote, puts, fresh, last>>
        ELSE IF rd = "throw" \/ file \notin DOMAIN local
        THEN /\ Caught(p)
             /\ UNCHANGED <<remote, puts, fresh>>
        ELSE /\ uploadFile(file, up)
             /\ ctx' = [ctx EXCEPT ![p].filesLeft = @ \ {file},
                                   ![p].successCount = IF up THEN @ + 1 ELSE @,
                                   ![p].ok = @ /\ up]
             /\ UNCHANGED <<pc, result, syncInProgress, mirror, last>>
    /\ UNCHANGED <<settings, vaultName, r2Service, lastSyncTime, now, local, folders,
                   snap, dirty, writes, quiescent, auxVars>>

\* this.settings.lastSyncTime = new Date().toISOString(); return uploaded > 0;
SyncMissingFilesFinish(p) ==
    /\ pc[p] = "sm_file"
    /\ ctx[p].filesLeft = {}
    /\ lastSyncTime' = now
    /\ Finish(p, ctx[p].successCount > 0, ctx[p].ok)
    /\ UNCHANGED <<settings, vaultName, r2Service, now, local, folders, remote,
                   snap, dirty, puts, writes, fresh, quiescent, auxVars>>

\* the caller has its result; it may call again
Return(p) ==
    /\ pc[p] \in {"done", "rejected"}
    /\ pc' = [pc EXCEPT ![p] = "idle"]
    /\ result' = [result EXCEPT ![p] = FALSE]
    /\ UNCHANGED <<settings, vaultName, r2Service, syncInProgress, mirror, lastSyncTime, now,
                   local, folders, remote, ctx, histVars, auxVars>>

(***************************************************************************)
(* The environment: the user edits or deletes a file, another device       *)
(* writes an object, time passes                                           *)
(***************************************************************************)
Contents == {"c1", "c2"}

\* a change from outside: the history of the running or the last pass is dropped
Disturbed ==
    /\ envSteps < MaxEnv
    /\ envSteps' = envSteps + 1
    /\ dirty' = (dirty \/ syncInProgress)
    /\ quiescent' = FALSE
    /\ snap' = NoSnap
    /\ puts' = {}
    /\ writes' = {}
    /\ last' = NoLast

EditLocal(path, c) ==
    /\ path \in DOMAIN local
    /\ c # local[path]
    /\ local' = Put(local, path, c)
    /\ fresh' = fresh \cup {path}
    /\ Disturbed
    /\ UNCHANGED <<settings, vaultName, r2Service, syncInProgress, mirror, lastSyncTime, now,
                   folders, remote, pc, ctx, result, mapVars, recording, backupVars, debVars,
                   lastDelete, pluginVars>>

RemoteChange(key, c) ==
    /\ key \in DOMAIN remote
    /\ c # remote[key]
    /\ remote' = Put(remote, key, c)
    /\ fresh' = fresh \ { q \in fresh : getFileKey(q) = key }
    /\ Disturbed
    /\ UNCHANGED <<settings, vaultName, r2Service, syncInProgress, mirror, lastSyncTime, now,
                   local, folders, pc, ctx, result, mapVars, recording, backupVars, debVars,
                   lastDelete, pluginVars>>

(***************************************************************************)
(* SyncManager.deleteRemoteForFile: not guarded by syncInProgress          *)
(***************************************************************************)
\* no deleteRemoteForFile call has returned yet
NoDelete == [ file |-> "", issued |-> FALSE, key |-> "", ret |-> FALSE, inflight |-> FALSE ]

\* the call for file: deleteFile was issued for key or not, the value returned, and
\* whether a pass held the guard (kept in the behaviours that keep the pass history)
Deleted(file, issued, key, ret) ==
    lastDelete' = IF recording
               THEN [ file |-> file, issued |-> issued, key |-> IF issued THEN key ELSE "",
                      ret |-> ret, inflight |-> syncInProgress ]
               ELSE NoDelete

\* a deleteRemoteForFile that gives way to a pass in flight, as the guarded operations do
deleteRemoteForFileGuarded(file, ok) ==
    LET key == getFileKey(file)
        issued == ~syncInProgress /\ r2Service /\ isSupportedFile(file)
    IN /\ remote' = IF issued /\ ok /\ key \in DOMAIN remote THEN Remove(remote, key) ELSE remote
       /\ Deleted(file, issued, key, issued /\ ok)

\* deleteRemoteForFile(file); ok: the outcome of r2Service.deleteFile(key)
deleteRemoteForFile(file, ok) ==
    LET key == getFileKey(file)
        issued == r2Service /\ isSupportedFile(file)
    IN /\ remote' = IF issued /\ ok /\ key \in DOMAIN remote THEN Remove(remote, key) ELSE remote
       /\ Deleted(file, issued, key, issued /\ ok)

\* this.app.vault.on('delete', file => void this.syncManager.deleteRemoteForFile(file)):
\* the user deletes a file of the vault; the handler exists if onload registered it
OnVaultDelete(file) ==
    /\ file \in DOMAIN local
    /\ local' = Remove(local, file)
    /\ IF registered
       THEN \E ok \in BOOLEAN : deleteRemoteForFile(file, ok)
       ELSE UNCHANGED <<remote, lastDelete>>
    /\ fresh' = fresh \ {file}
    /\ Disturbed
    /\ UNCHANGED <<settings, vaultName, r2Service, syncInProgress, mirror, lastSyncTime, now,
                   folders, pc, ctx, result, mapVars, recording, backupVars, debVars,
                   pluginVars>>

Tick ==
    /\ now < MaxNow
    /\ now' = now + 1
    /\ UNCHANGED <<settings, vaultName, r2Service, syncInProgress, mirror, lastSyncTime,
                   local, folders, remote, pc, ctx, result, histVars, auxVars>>

(***************************************************************************)
(* SyncManager.updateSettings / updateR2Service / importCredentials        *)
(***************************************************************************)
\* updateR2Service: a client is constructed when the three credentials are present;
\* nothing is done otherwise (a client constructed earlier is kept)
updateR2Service(s) == IF s.creds THEN TRUE ELSE r2Service

\* the settings tab changes a credential field and calls updateSettings(settings);
\* c: the three credentials are all non-empty afterwards
UpdateSettings(c) ==
    /\ settings' = [settings EXCEPT !.creds = c]
    /\ r2Service' = updateR2Service(settings')
    /\ UNCHANGED <<vaultName, syncInProgress, mirror, lastSyncTime, now, local, folders, remote,
                   pc, ctx, result, histVars, auxVars>>

\* importCredentials(base64Data); valid: the data decodes to JSON with the four required
\* fields; base: its baseFolder field ("" when it has none)
ImportCredentials(valid, base) ==
    /\ IF valid
       THEN /\ settings' = [settings EXCEPT !.creds = TRUE, !.baseFolder = base]
            /\ r2Service' = updateR2Service(settings')
       ELSE UNCHANGED <<settings, r2Service>>
    /\ UNCHANGED <<vaultName, syncInProgress, mirror, lastSyncTime, now, local, folders, remote,
                   pc, ctx, result, histVars, auxVars>>

(***************************************************************************)
(* Backups: SyncManager.createBackup / listBackups / deleteBackup /        *)
(* cleanupOldBackups over R2ServiceObsidian                                *)
(***************************************************************************)
MaxDay == 62        \* the clock of the backup behaviours runs to this day
MaxMarkers == 2     \* objects under backups/ at any time

endsWith(s, suf) ==
    /\ Len(s) >= Len(suf)
    /\ SubSeq(s, Len(s) - Len(suf) + 1, Len(s)) = suf

\* new Date().toISOString() at day t
toISOString(t) == "day" \o ToString(t) \o "T00:00:00.000Z"

\* .replace(/[:.]/g, '-')
RECURSIVE replaceColonDot(_)
replaceColonDot(s) ==
    IF s = "" THEN ""
    ELSE (IF SubSeq(s, 1, 1) \in {":", "."} THEN "-" ELSE SubSeq(s, 1, 1))
         \o replaceColonDot(substring(s, 1))

\* an Invalid Date: every comparison with it is false
NaN == -1

\* new Date(timestamp): a string in the toISOString format is parsed to its instant; any
\* other string is left to the engine's own heuristics, which either reject it (Invalid
\* Date) or, when lenient, read the instant the string was made from
parseDate(timestamp, lenient) ==
    LET iso == { t \in 0..MaxDay : toISOString(t) = timestamp }
        other == { t \in 0..MaxDay : replaceColonDot(toISOString(t)) = timestamp }
    IN IF iso # {} THEN CHOOSE t \in iso : TRUE
       ELSE IF lenient /\ other # {} THEN CHOOSE t \in other : TRUE
       ELSE NaN

\* JSON.stringify({ timestamp, folderPath, type: 'backup_marker' })
markerBody(timestamp, folderPath) ==
    [ timestamp |-> timestamp, folderPath |-> folderPath, json |-> TRUE ]

\* R2ServiceObsidian.createBackup: the key of the marker object
backupKey(timestamp, folderPath) == "backups/" \o timestamp \o "/" \o folderPath

\* R2ServiceObsidian.listBackups: the objects under backups/ whose key ends with
\* "backup_marker"; readable: those whose download returned content
listedMarkers(readable) ==
    { k \in DOMAIN markers : endsWith(k, "backup_marker") /\ k \in readable /\ markers[k].json }

\* the entries of listBackups in an order sorted by timestamp, descending
sortedBackups(keys) ==
    { s \in [ 1..Cardinality(keys) -> keys ] :
        /\ \A i, j \in DOMAIN s : i # j => s[i] # s[j]
        /\ \A i, j \in DOMAIN s :
              i < j => parseDate(markers[s[i]].timestamp, TRUE) >= parseDate(markers[s[j]].timestamp, TRUE) }

entryOf(k) == [ timestamp |-> markers[k].timestamp, folderPath |-> markers[k].folderPath ]

\* R2ServiceObsidian.deleteBackup(timestamp) applied to the bucket m: every object under
\* backups/<timestamp>/ is deleted (del: the delete requests succeed)
deleteBackupIn(m, timestamp, del) ==
    IF del
    THEN [ k \in { x \in DOMAIN m : ~startsWith(x, "backups/" \o timestamp \o "/") } |-> m[k] ]
    ELSE m

\* the value a backup operation returns (clean, history: every store call of it succeeded)
Returned(op, ok, count, list, clean) ==
    bop' = [ op |-> op, ok |-> ok, count |-> count, list |-> list, clean |-> clean ]

backupUnchanged ==
    UNCHANGED <<settings, vaultName, r2Service, syncInProgress, mirror, lastSyncTime, now, local,
                folders, remote, pc, ctx, result, histVars, mapVars, envSteps, recording, debVars,
                lastDelete, pluginVars>>

\* SyncManager.createBackup(folderPath); ok: the put of the marker succeeded
CreateBackup(folderPath, ok) ==
    /\ Cardinality(DOMAIN markers) < MaxMarkers
    /\ IF ~r2Service \/ ~settings.enableBackups
       THEN /\ Returned("createBackup", FALSE, 0, <<>>, TRUE)
            /\ UNCHANGED markers
       ELSE LET timestamp == replaceColonDot(toISOString(now)) IN
            /\ markers' = IF ok THEN Put(markers, backupKey(timestamp, folderPath),
                                         markerBody(timestamp, folderPath))
                                ELSE markers
            /\ Returned("createBackup", ok, 0, <<>>, ok)
    /\ backupUnchanged

\* SyncManager.listBackups(); ls: the listing succeeded
ListBackups ==
    /\ IF ~r2Service
       THEN Returned("listBackups", FALSE, 0, <<>>, TRUE)
       ELSE \E ls \in BOOLEAN, readable \in SUBSET DOMAIN markers :
               IF ~ls THEN Returned("listBackups", FALSE, 0, <<>>, FALSE)
               ELSE \E s \in sortedBackups(listedMarkers(readable)) :
                       Returned("listBackups", TRUE, Len(s), [ i \in DOMAIN s |-> entryOf(s[i]) ],
                                readable = DOMAIN markers)
    /\ UNCHANGED markers
    /\ backupUnchanged

\* SyncManager.deleteBackup(timestamp)
DeleteBackup(timestamp) ==
    /\ IF ~r2Service
       THEN /\ Returned("deleteBackup", FALSE, 0, <<>>, TRUE)
            /\ UNCHANGED markers
       ELSE \E ls \in BOOLEAN, del \in BOOLEAN :
               /\ markers' = IF ls THEN deleteBackupIn(markers, timestamp, del) ELSE markers
               /\ Returned("deleteBackup", ls, 0, <<>>, ls /\ del)
    /\ backupUnchanged

\* R2ServiceObsidian.cleanupOldBackups(retentionDays) over the listed backups: those whose
\* date is before the cutoff
expiredBackups(listed, retentionDays, lenient) ==
    LET cutoffDate == now - retentionDays IN
    { k \in listed :
        LET backupDate == parseDate(markers[k].timestamp, lenient) IN
        backupDate # NaN /\ backupDate < cutoffDate }

RECURSIVE deleteAll(_, _, _)
deleteAll(m, timestamps, del) ==
    IF timestamps = {} THEN m
    ELSE LET ts == CHOOSE x \in timestamps : TRUE IN
         deleteAll(deleteBackupIn(m, ts, del), timestamps \ {ts}, del)

\* SyncManager.cleanupOldBackups()
CleanupOldBackups ==
    /\ IF ~r2Service \/ ~settings.enableBackups
       THEN /\ Returned("cleanupOldBackups", FALSE, 0, <<>>, TRUE)
            /\ UNCHANGED markers
       ELSE \E ls \in BOOLEAN, del \in BOOLEAN, lenient \in BOOLEAN,
               readable \in SUBSET DOMAIN markers :
               LET listed == IF ls THEN listedMarkers(readable) ELSE {}
                   expired == expiredBackups(listed, settings.backupRetentionDays, lenient)
               IN /\ markers' = deleteAll(markers, { markers[k].timestamp : k \in expired }, del)
                  /\ Returned("cleanupOldBackups", TRUE, Cardinality(expired), <<>>,
                              ls /\ del /\ readable = DOMAIN markers)
    /\ backupUnchanged

\* days pass
Elapse(d) ==
    /\ now + d <= MaxDay
    /\ now' = now + d
    /\ UNCHANGED <<settings, vaultName, r2Service, syncInProgress, mirror, lastSyncTime,
                   local, folders, remote, pc, ctx, result, histVars, auxVars>>

(***************************************************************************)
(* R2SyncPlugin.debouncedSync: the vault 'modify' / 'create' handlers       *)
(***************************************************************************)
MaxCalls == 3       \* debouncedSync calls in one behaviour

\* the caller slot of the syncFile calls made by timer callbacks
DebounceProc == 2

\* a debounce that neither clears the pending timer nor advances the token
debouncedSyncNoCancel(file) ==
    /\ timers' = timers \cup { [ handle |-> Len(calls) + 1, id |-> debounceId,
                                 file |-> file, due |-> now + settings.syncDelay ] }
    /\ debounceId' = debounceId
    /\ syncTimeout' = Len(calls) + 1
    /\ calls' = Append(calls, [ file |-> file, at |-> now ])
    /\ UNCHANGED fired

\* debouncedSync(file): clearTimeout(this.syncTimeout), this.debounceId++, and a new
\* timer that carries the token
debouncedSync(file) ==
    /\ timers' = { t \in timers : syncTimeout = 0 \/ t.handle # syncTimeout }
                 \cup { [ handle |-> Len(calls) + 1, id |-> debounceId + 1,
                          file |-> file, due |-> now + settings.syncDelay ] }
    /\ debounceId' = debounceId + 1
    /\ syncTimeout' = Len(calls) + 1
    /\ calls' = Append(calls, [ file |-> file, at |-> now ])
    /\ UNCHANGED fired

\* the vault 'modify' event of a supported file: the file has new content c and the
\* handler that onload registered calls debouncedSync(file)
OnModify(file, c) ==
    /\ registered
    /\ file \in DOMAIN local
    /\ isSupportedFile(file)
    /\ Len(calls) < MaxCalls
    /\ now + settings.syncDelay <= MaxNow
    /\ local' = Put(local, file, c)
    /\ fresh' = fresh \cup {file}
    /\ dirty' = (dirty \/ syncInProgress)
    /\ quiescent' = FALSE
    /\ snap' = NoSnap
    /\ puts' = {}
    /\ writes' = {}
    /\ last' = NoLast
    /\ debouncedSync(file)
    /\ UNCHANGED <<settings, vaultName, r2Service, syncInProgress, mirror, lastSyncTime, now,
                   folders, remote, pc, ctx, result, callVars>>

\* the callback of a timer whose delay has elapsed: syncFile(file) is invoked when the
\* timer carries the latest token, and this.syncTimeout = null
TimerFire ==
    \E t \in timers :
        /\ now >= t.due
        /\ timers' = timers \ {t}
        /\ syncTimeout' = 0
        /\ UNCHANGED <<debounceId, calls>>
        /\ IF t.id = debounceId
           THEN /\ fired' = fired \cup { [ call |-> t.handle, at |-> now ] }
                /\ IF pc[DebounceProc] \in {"idle", "done", "rejected"} /\ ~busy
                   THEN Acquire(DebounceProc, "syncFile", t.file, "sf_upload")
                   ELSE IF pc[DebounceProc] \in {"idle", "done", "rejected"}
                   THEN Reject(DebounceProc)
                   ELSE \* the syncFile call of an earlier callback still holds the guard
                        UNCHANGED <<settings, vaultName, r2Service, syncInProgress, mirror,
                                    lastSyncTime, now, local, folders, remote, pc, ctx,
                                    result, histVars, callVars>>
           ELSE UNCHANGED <<fired, settings, vaultName, r2Service, syncInProgress, mirror,
                            lastSyncTime, now, local, folders, remote, pc, ctx,
                            result, histVars, callVars>>

(***************************************************************************)
(* Specifications                                                          *)
(***************************************************************************)
\* every folder on the path of a file of the vault
FoldersOf(vault) == UNION { Dirs(path) : path \in DOMAIN vault }

\* DEFAULT_SETTINGS.backupRetentionDays
DefaultRetentionDays == 30

\* no backup operation has returned yet
NoBop == [ op |-> "none", ok |-> FALSE, count |-> 0, list |-> <<>>, clean |-> FALSE ]

\* saveSettings(): saveData(this.settings) writes the settings object as it is now
saveSettings == saved' = [ syncInProgress |-> mirror, lastSyncTime |-> lastSyncTime ]

\* the "Auto Sync" toggle of the settings tab: the field is set and the settings are saved
SetAutoSync(value) ==
    /\ settings.autoSync # value
    /\ settings' = [settings EXCEPT !.autoSync = value]
    /\ saveSettings
    /\ UNCHANGED <<vaultName, r2Service, syncInProgress, mirror, lastSyncTime, now, local,
                   folders, remote, pc, ctx, result, histVars, mapVars, envSteps, recording,
                   backupVars, debVars, lastDelete, registered>>

\* the application is closed and started again: the operations in flight and the pending
\* timer are gone; onload loads the settings over the defaults, constructs a new
\* SyncManager (guard false, service from the credentials) and registers the vault
\* handlers if autoSync is on
Restart ==
    /\ mirror' = saved.syncInProgress
    /\ lastSyncTime' = saved.lastSyncTime
    /\ syncInProgress' = FALSE
    /\ r2Service' = settings.creds
    /\ registered' = settings.autoSync
    /\ pc' = [ p \in Procs |-> "idle" ]
    /\ ctx' = [ p \in Procs |-> ctx0 ]
    /\ result' = [ p \in Procs |-> FALSE ]
    /\ timers' = {}
    /\ syncTimeout' = 0
    /\ debounceId' = 0
    /\ dirty' = FALSE
    /\ quiescent' = FALSE
    /\ snap' = NoSnap
    /\ puts' = {}
    /\ writes' = {}
    /\ last' = NoLast
    /\ UNCHANGED <<settings, vaultName, now, local, folders, remote, fresh, mapVars,
                   envSteps, recording, backupVars, calls, fired, lastDelete, saved>>

\* DEFAULT_SETTINGS: lastSyncTime '', syncInProgress false (no settings file yet)
NoData == [ syncInProgress |-> FALSE, lastSyncTime |-> 0 ]

\* the state after onload: the settings are loaded (autoSync and autoBackupOnSync as given,
\* no data file yet, so syncInProgress takes its default), the SyncManager is constructed
\* over vault v and bucket b (markers m under backups/), and the vault handlers are
\* registered if autoSync is on
InitPlugin(vault, base, bidi, creds, v, b, backups, days, m, autoSync, autoBackupOnSync) ==
    /\ settings = [ baseFolder |-> base, bidirectionalSync |-> bidi, creds |-> creds,
                    enableBackups |-> backups, backupRetentionDays |-> days,
                    autoSync |-> autoSync, autoBackupOnSync |-> autoBackupOnSync,
                    syncDelay |-> 1 ]   \* the clock ticks once per configured delay
    /\ mirror = FALSE
    /\ saved = NoData
    /\ registered = autoSync
    /\ markers = m
    /\ bop = NoBop
    /\ syncTimeout = 0
    /\ debounceId = 0
    /\ timers = {}
    /\ calls = <<>>
    /\ fired = {}
    /\ lastDelete = NoDelete
    /\ vaultName = vault
    /\ r2Service = creds
    /\ syncInProgress = FALSE
    /\ lastSyncTime = 0
    /\ now = 1
    /\ local = v
    /\ folders = FoldersOf(v)
    /\ remote = b
    /\ pc = [ p \in Procs |-> "idle" ]
    /\ ctx = [ p \in Procs |-> ctx0 ]
    /\ result = [ p \in Procs |-> FALSE ]
    /\ snap = NoSnap
    /\ dirty = FALSE
    /\ puts = {}
    /\ writes = {}
    /\ last = NoLast
    /\ fresh = {}
    /\ quiescent = FALSE

\* DEFAULT_SETTINGS: autoSync true, autoBackupOnSync false
InitSync(vault, base, bidi, creds, v, b, backups, days, m) ==
    InitPlugin(vault, base, bidi, creds, v, b, backups, days, m, TRUE, FALSE)

\* DEFAULT_SETTINGS: enableBackups false, backupRetentionDays 30; no marker in the bucket
InitEngine(vault, base, bidi, creds, v, b) ==
    InitSync(vault, base, bidi, creds, v, b, FALSE, DefaultRetentionDays, EmptyMap)

InitMapIdle == mp = "" /\ mk = "" /\ mr = "" /\ mstage = 0 /\ envSteps = 0

Engine(p) ==
    \/ \E file \in DOMAIN local : SyncFileCall(p, file)
    \/ SyncFileUpload(p)
    \/ SyncAllFilesCall(p)
    \/ DownloadAndSyncCall(p)
    \/ DownloadList(p)
    \/ DownloadKey(p)
    \/ DownloadDone(p)
    \/ UploadEnum(p)
    \/ UploadFile(p)
    \/ SyncAllFilesFinish(p)
    \/ SyncMissingFilesCall(p)
    \/ MissingList(p)
    \/ MissingFile(p)
    \/ SyncMissingFilesFinish(p)
    \/ Return(p)

Env ==
    \/ \E path \in DOMAIN local, c \in Contents : EditLocal(path, c)
    \/ \E key \in DOMAIN remote, c \in Contents : RemoteChange(key, c)
    \/ \E file \in DOMAIN local : OnVaultDelete(file)

\* Spec: the callers of the SyncManager interleaved at their await points (the pass
\* history is kept in PassSpec only)
Init ==
    /\ \E bidi \in BOOLEAN, creds \in BOOLEAN, b \in { EmptyMap, [ k \in {"MyVault/notes/a.md"} |-> "c1" ] } :
          InitEngine("MyVault", "", bidi, creds, [ q \in {"notes/a.md"} |-> "c1" ], b)
    /\ InitMapIdle
    /\ recording = FALSE

Next ==
    \/ \E p \in Procs : Engine(p)
    \/ \E file \in DOMAIN local : OnVaultDelete(file)
    \/ Tick

Spec == Init /\ [][Next]_vars

\* the resumptions of a suspended call: every awaited collaborator call returns or throws,
\* and the event loop then runs the continuation
Resume(p) ==
    \/ SyncFileUpload(p)
    \/ DownloadList(p)
    \/ DownloadKey(p)
    \/ DownloadDone(p)
    \/ UploadEnum(p)
    \/ UploadFile(p)
    \/ SyncAllFilesFinish(p)
    \/ MissingList(p)
    \/ MissingFile(p)
    \/ SyncMissingFilesFinish(p)

FairSpec == Spec /\ \A p \in Procs : WF_vars(Resume(p))

\* PassSpec: one caller over a vault and a bucket that the user and other devices change.
\* Either the base folder setting is empty (the vault name is used) and the vault holds
\* notes/a.md, or the base folder is "Vault" and the vault holds files under Vault/.
PassScenarios ==
    { [ base |-> "", vault |-> {"notes/a.md"}, bucket |-> {} ],
      [ base |-> "", vault |-> {"notes/a.md"}, bucket |-> {"MyVault/notes/a.md"} ],
      [ base |-> "Vault", vault |-> {"Vault/x.md", "Vault/Vault/z.md"}, bucket |-> {} ],
      [ base |-> "Vault", vault |-> {"Vault/x.md", "Vault/Vault/z.md"}, bucket |-> {"x.md"} ] }

PassInit ==
    /\ \E sc \in PassScenarios, bidi \in BOOLEAN :
          InitEngine("MyVault", sc.base, bidi, TRUE,
                     [ q \in sc.vault |-> "c1" ], [ k \in sc.bucket |-> "c1" ])
    /\ InitMapIdle
    /\ recording = TRUE

PassNext ==
    \/ Engine(1)
    \/ Env

PassSpec == PassInit /\ [][PassNext]_vars

\* MapSpec: getFileKey and getLocalPathFromKey applied to a path, for every base folder
\* setting and vault name
MapBases == {"", "Vault", "notes"}
MapVaults == {"MyVault", "Vault"}
MapPaths == {"x.md", "notes/a.md", "Vault/x.md", "Vault/notes/a.md", "Vault/Vault/z.md",
             "MyVault/x.md", "Vault", "notes", "notes/Vault/b.txt", "Vaults/c.md",
             "backups/m.md", "a/b/c.png"}

MapInit ==
    /\ \E vault \in MapVaults, base \in MapBases :
          InitEngine(vault, base, TRUE, TRUE, EmptyMap, EmptyMap)
    /\ mp \in MapPaths
    /\ mk = ""
    /\ mr = ""
    /\ mstage = 0
    /\ envSteps = 0
    /\ recording = FALSE

ApplyGetFileKey ==
    /\ mstage = 0
    /\ mk' = getFileKey(mp)
    /\ mstage' = 1
    /\ UNCHANGED <<mp, mr, engineVars>>

ApplyGetLocalPathFromKey ==
    /\ mstage = 1
    /\ mr' = getLocalPathFromKey(mk)
    /\ mstage' = 2
    /\ UNCHANGED <<mp, mk, engineVars>>

MapNext == ApplyGetFileKey \/ ApplyGetLocalPathFromKey

MapSpec == MapInit /\ [][MapNext]_vars

(***************************************************************************)
(* Claims                                                                  *)
(***************************************************************************)
\* caller p is between acquiring the in-flight guard and releasing it
Holding(p) == pc[p] \notin {"idle", "done", "rejected"}
HoldingNext(p) == pc'[p] \notin {"idle", "done", "rejected"}

\* C1 - mutual exclusion: at any time at most one of syncFile, syncAllFiles,
\* syncMissingFiles and downloadAndSync is between acquiring the in-flight guard and
\* releasing it, and the guard is set while one is.
C1_MutualExclusion ==
    /\ Cardinality({ p \in Procs : Holding(p) }) <= 1
    /\ (\E p \in Procs : Holding(p)) => syncInProgress

\* a second caller arrived while a pass was in its upload phase, and was turned away
C1_Witness ==
    \E p, q \in Procs :
        /\ p # q
        /\ pc[p] = "up_file"
        /\ pc[q] = "rejected"
        /\ r2Service

\* C2 - busy rejection: a guarded operation invoked while the guard is held returns
\* false at once, writes nothing to the bucket or the vault, leaves lastSyncTime and the
\* guard of the running pass as they are, and is not run later (the caller only returns).
C2_BusyRejection ==
    [][ \A p \in Procs :
          /\ (pc[p] = "idle" /\ pc'[p] # "idle" /\ syncInProgress)
                => /\ pc'[p] = "rejected"
                   /\ result'[p] = FALSE
                   /\ UNCHANGED <<remote, local, folders, lastSyncTime, syncInProgress,
                                  ctx, puts, writes>>
          /\ pc[p] = "rejected"
                => /\ pc'[p] \in {"rejected", "idle"}
                   /\ ctx'[p] = ctx0
                   /\ (pc'[p] = "idle" => UNCHANGED <<remote, local, folders, lastSyncTime,
                                                     syncInProgress>>) ]_vars

\* a caller was rejected by the guard alone (credentials and bidirectional sync are on)
\* while the pass that holds the guard goes on
C2_Witness ==
    \E p, q \in Procs :
        /\ p # q
        /\ Holding(p)
        /\ pc[q] = "rejected"
        /\ syncInProgress
        /\ r2Service
        /\ settings.bidirectionalSync

\* C3 - guard release on every exit path: when a call that acquired the guard finishes
\* (upload succeeded, upload failed, or a read or store call threw) the guard is false
\* afterwards; and, every collaborator call returning or throwing, a held guard is
\* eventually released.
C3_GuardReleased ==
    /\ [][ \A p \in Procs : (Holding(p) /\ ~HoldingNext(p)) => ~syncInProgress' ]_vars
    /\ (syncInProgress ~> ~syncInProgress)

\* a pass ended through its catch block, and the guard is free
C3_Witness ==
    \E p \in Procs :
        /\ pc[p] = "done"
        /\ last.op \in {"syncFile", "syncAllFiles", "syncMissingFiles"}
        /\ ~last.ok
        /\ result[p] = FALSE
        /\ ~syncInProgress

\* a syncAllFiles pass has finished, every collaborator call of it succeeded, and nothing
\* was changed from outside since it acquired the guard
CleanFullPass ==
    /\ last.op = "syncAllFiles"
    /\ last.ok
    /\ snap.valid
    /\ ~dirty

\* C4 - remote-differs download: with a base folder b (e.g. "Vault") and a local file
\* b/x.md whose remote object x.md exists with different content, a full pass with
\* bidirectional sync overwrites the local file with the remote content and leaves the
\* remote object as it was.
C4_RemoteDiffersDownload ==
    (CleanFullPass /\ settings.bidirectionalSync /\ settings.baseFolder # "")
    => \A path \in DOMAIN snap.local :
          LET key == getFileKey(path) IN
          ( /\ startsWith(path, settings.baseFolder \o "/")
            /\ key \in DOMAIN snap.remote
            /\ snap.remote[key] # snap.local[path] )
          => /\ path \in DOMAIN local
             /\ local[path] = snap.remote[key]
             /\ remote[key] = snap.remote[key]

\* C5 - no data loss on a one-sided local change: a step of the download phase never
\* changes a local file that was edited since its last upload while the remote object of
\* its key stayed as it was.
C5_NoLossOfLocalEdit ==
    [][ \A p \in Procs :
          (pc[p] = "dl_key" /\ ctx'[p].keysLeft # ctx[p].keysLeft)
          => \A path \in fresh \cap DOMAIN local :
                path \in DOMAIN local' /\ local'[path] = local[path] ]_vars

\* C6 - convergence: after a syncAllFiles pass with every call succeeding and nothing
\* changed from outside, the remote object of every sync-eligible local file equals the
\* file; and a pass that follows at once creates or modifies no local file.
C6_Convergence ==
    /\ (CleanFullPass /\ quiescent)
          => \A path \in getFilesToSync :
                /\ getFileKey(path) \in DOMAIN remote
                /\ remote[getFileKey(path)] = local[path]
    /\ (CleanFullPass /\ last.startQ) => writes = {}

\* C7 - path/key round trip: for a non-empty base folder b and a path p that starts with
\* b + "/", getLocalPathFromKey(getFileKey(p)) = p.
C7_RoundTrip ==
    (mstage = 2 /\ settings.baseFolder # "" /\ startsWith(mp, settings.baseFolder \o "/"))
    => mr = mp

\* C8 - identity mapping for an empty base folder: getFileKey(p) = p for every path and
\* getLocalPathFromKey(k) = k for every key.
C8_EmptyBaseIdentity ==
    settings.baseFolder = ""
    => /\ (mstage >= 1 => mk = mp)
       /\ (mstage = 2 => mr = mk)

\* C9 - upload of a file missing remotely: with base folder "" and local file notes/a.md,
\* the bucket holding no object, a full pass issues a put for key notes/a.md with the
\* file's content, and lastSyncTime is non-empty afterwards.
C9_UploadMissing ==
    ( /\ CleanFullPass
      /\ settings.baseFolder = ""
      /\ "notes/a.md" \in DOMAIN snap.local
      /\ DOMAIN snap.remote = {} )
    => /\ <<"notes/a.md", snap.local["notes/a.md"]>> \in puts
       /\ lastSyncTime # 0

\* C10 - lastSyncTime changes only on success: only a syncFile whose upload succeeded, or
\* a syncAllFiles / syncMissingFiles pass in which an upload succeeded, modifies it.
C10_LastSyncOnlyOnSuccess ==
    [][ lastSyncTime' # lastSyncTime =>
          \E p \in Procs :
              \/ pc[p] = "sf_upload" /\ pc'[p] = "done" /\ result'[p]
              \/ /\ pc[p] \in {"up_file", "sm_file"}
                 /\ pc'[p] = "done"
                 /\ ctx[p].successCount > 0 ]_vars

\* C11 - syncAllFiles result: a syncAllFiles call that acquired the guard returns true
\* if and only if at least one upload of the pass succeeded.
C11_SyncAllResult ==
    \A p \in Procs :
        (pc[p] = "done" /\ last.op = "syncAllFiles")
        => (result[p] <=> last.uploaded > 0)

\* C12 - per-file failure isolation: in a full pass a failure on one remote key of the
\* download phase or on one local file of the upload phase ends the work on that key or
\* file only; every step takes at most one item off the work list and the pass goes on
\* while items are left.
C12_FailureIsolation ==
    [][ \A p \in Procs :
          /\ (pc[p] = "dl_key" /\ ctx[p].op = "syncAllFiles")
                => Cardinality(ctx'[p].keysLeft) >= Cardinality(ctx[p].keysLeft) - 1
          /\ (pc[p] = "up_file" /\ ctx[p].op = "syncAllFiles"
                /\ Cardinality(ctx[p].filesLeft) >= 2)
                => /\ pc'[p] = "up_file"
                   /\ Cardinality(ctx'[p].filesLeft) >= Cardinality(ctx[p].filesLeft) - 1 ]_vars

\* C13 - upload only what differs: in the upload phase of a full pass a put is issued only
\* for a local file whose key is absent from the bucket or whose remote object differs
\* from the local content.
C13_UploadOnlyDiffering ==
    [][ \A p \in Procs :
          (pc[p] = "up_file" /\ ctx[p].op = "syncAllFiles")
          => \A put \in puts' \ puts :
                \/ put[1] \notin DOMAIN remote
                \/ remote[put[1]] # put[2] ]_vars

\* C14 - syncMissingFiles never perturbs existing remote content: syncMissingFiles issues
\* a put for a key only if the bucket held no object with that key when the pass listed it
\* (nothing changed from outside since), also when the listing call failed.
C14_MissingNeverOverwrites ==
    [][ \A p \in Procs :
          (pc[p] = "sm_file" /\ snap.valid /\ ~dirty)
          => \A put \in puts' \ puts : put[1] \notin DOMAIN snap.remote ]_vars

\* ConfigSpec: one caller, while the settings tab changes the credentials
ConfigBases == {""}

ConfigInit ==
    /\ \E bidi \in BOOLEAN, creds \in BOOLEAN :
          InitSync("MyVault", "", bidi, creds, [ q \in {"notes/a.md"} |-> "c1" ], EmptyMap,
                   TRUE, DefaultRetentionDays, EmptyMap)
    /\ InitMapIdle
    /\ recording = FALSE

ConfigNext ==
    \/ Engine(1)
    \/ \E c \in BOOLEAN : UpdateSettings(c)
    \/ \E valid \in BOOLEAN, base \in ConfigBases : ImportCredentials(valid, base)
    \/ \E file \in DOMAIN local : OnVaultDelete(file)
    \/ \E ok \in BOOLEAN : CreateBackup("Vault", ok)
    \/ \E k \in DOMAIN markers : DeleteBackup(markers[k].timestamp)
    \/ CleanupOldBackups

ConfigSpec == ConfigInit /\ [][ConfigNext]_vars

\* BackupSpec: the backup operations over a bucket that may already hold marker objects
\* written by another device: one with a timestamp in the toISOString format, one whose
\* body does not parse
BackupFolders == {"Vault", "backup_marker"}

ForeignMarkers ==
    { EmptyMap,
      [ k \in { backupKey(toISOString(0), "backup_marker") } |-> markerBody(toISOString(0), "Vault") ],
      [ k \in { backupKey("x", "backup_marker") } |->
            [ timestamp |-> "", folderPath |-> "", json |-> FALSE ] ] }

BackupInit ==
    /\ \E days \in {0, DefaultRetentionDays}, m \in ForeignMarkers :
          InitSync("MyVault", "Vault", FALSE, TRUE, EmptyMap, EmptyMap, TRUE, days, m)
    /\ InitMapIdle
    /\ recording = FALSE

BackupNext ==
    \/ \E folderPath \in BackupFolders, ok \in BOOLEAN : CreateBackup(folderPath, ok)
    \/ ListBackups
    \/ \E k \in DOMAIN markers : DeleteBackup(markers[k].timestamp)
    \/ CleanupOldBackups
    \/ \E d \in {DefaultRetentionDays, DefaultRetentionDays + 1} : Elapse(d)

BackupSpec == BackupInit /\ [][BackupNext]_vars

\* C15 - configuration-incomplete fail-fast: in a state whose settings lack a credential
\* (after any updateSettings / importCredentials), a call of syncFile, syncAllFiles,
\* syncMissingFiles or downloadAndSync is rejected with false, the delete handler leaves
\* the bucket alone, createBackup, deleteBackup and cleanupOldBackups return failure and
\* leave the bucket alone, and none of them changes the guard or lastSyncTime.
C15_ConfigIncompleteFailFast ==
    [][ ~settings.creds =>
          /\ \A p \in Procs :
                (pc[p] = "idle" /\ pc'[p] # "idle")
                => /\ pc'[p] = "rejected"
                   /\ result'[p] = FALSE
                   /\ UNCHANGED <<remote, markers, syncInProgress, lastSyncTime>>
          /\ (DOMAIN local' # DOMAIN local /\ DOMAIN local' \subseteq DOMAIN local)
                => UNCHANGED <<remote, markers, syncInProgress, lastSyncTime>>
          /\ ((bop' # bop \/ markers' # markers)
                 /\ bop'.op \in {"createBackup", "deleteBackup", "cleanupOldBackups"})
                => /\ ~bop'.ok
                   /\ bop'.count = 0
                   /\ UNCHANGED <<remote, markers, syncInProgress, lastSyncTime>> ]_vars

\* DebounceSpec: the user edits two files and timer callbacks call syncFile.  Timers
\* whose delay elapsed run, the clock advances, and suspended calls are resumed.
DebounceInit ==
    /\ InitEngine("MyVault", "", TRUE, TRUE,
                  [ q \in {"notes/a.md", "notes/b.md"} |-> "c1" ], EmptyMap)
    /\ InitMapIdle
    /\ recording = FALSE

DebounceNext ==
    \/ \E file \in DOMAIN local, c \in Contents : OnModify(file, c)
    \/ TimerFire
    \/ Tick
    \/ SyncFileUpload(DebounceProc)
    \/ Return(DebounceProc)

DebounceSpec ==
    /\ DebounceInit
    /\ [][DebounceNext]_vars
    /\ WF_vars(TimerFire)
    /\ WF_vars(Tick)
    /\ WF_vars(SyncFileUpload(DebounceProc))

\* DebouncePassSpec: the same, while another caller runs full passes, periodic
\* download passes and the "sync missing files" command
DebouncePassNext ==
    \/ DebounceNext
    \/ SyncAllFilesCall(1)
    \/ DownloadAndSyncCall(1)
    \/ SyncMissingFilesCall(1)
    \/ Resume(1)
    \/ Return(1)

DebouncePassSpec ==
    /\ DebounceInit
    /\ [][DebouncePassNext]_vars
    /\ WF_vars(TimerFire)
    /\ WF_vars(Tick)
    /\ \A p \in {1, DebounceProc} : WF_vars(Resume(p))

\* every debouncedSync call so far came before the delay started by the call before it
\* had elapsed
Chained ==
    \A j \in 2..Len(calls) : calls[j].at < calls[j - 1].at + settings.syncDelay

\* C16 - debounce coalescing: for a sequence of debouncedSync calls each made before the
\* delay of the previous one elapsed, syncFile is invoked only for the last call, at most
\* once, not before the delay since the last call elapsed, the calls before the last never
\* run, and once no timer is pending the last call's syncFile has been invoked; a pending
\* timer always runs or is superseded.
C16_DebounceCoalescing ==
    /\ [](Chained =>
            /\ Cardinality(fired) <= 1
            /\ \A f \in fired :
                  /\ f.call = Len(calls)
                  /\ f.at >= calls[f.call].at + settings.syncDelay
            /\ (timers = {} /\ calls # <<>>) => \E f \in fired : f.call = Len(calls))
    /\ ((timers # {}) ~> (timers = {}))

\* events A, A, B within the delay: only the call for B has run
C16_Witness ==
    /\ Len(calls) = 3
    /\ calls[1].file = "notes/a.md"
    /\ calls[2].file = "notes/a.md"
    /\ calls[3].file = "notes/b.md"
    /\ Chained
    /\ timers = {}
    /\ fired = { [ call |-> 3, at |-> calls[3].at + settings.syncDelay ] }
    /\ ctx[DebounceProc].file = "notes/b.md"

\* C17 - a coalesced edit reaches the remote store: with credentials configured, the
\* syncFile call made by the timer callback of the last call of a burst is accepted and
\* goes on to read the file and put it at the file's key, also when a full pass or a
\* periodic download pass is in flight when the timer fires.
C17_CoalescedEditUploaded ==
    [][ (fired' # fired /\ r2Service)
          => /\ pc'[DebounceProc] = "sf_upload"
             /\ \E f \in fired' \ fired : ctx'[DebounceProc].file = calls[f.call].file ]_vars

\* a backup operation op has just returned
BackupReturned(op) == bop'.op = op /\ (bop' # bop \/ markers' # markers)

\* the instant a marker's timestamp was made from
instantOf(m, k) == parseDate(m[k].timestamp, TRUE)

\* C18 - retention 0 never expires: cleanupOldBackups with backupRetentionDays = 0 deletes
\* no backup and returns 0, whatever the age of the backups in the bucket.
C18_RetentionZeroKeepsAll ==
    [][ (BackupReturned("cleanupOldBackups") /\ settings.backupRetentionDays = 0)
          => /\ markers' = markers
             /\ bop'.count = 0 ]_vars

\* C19 - retention 30: cleanupOldBackups (every store call succeeding) deletes every
\* backup written by createBackup whose timestamp is strictly older than now - 30 days,
\* deletes no backup that is not older, and returns the number deleted.
C19_RetentionThirty ==
    [][ ( /\ BackupReturned("cleanupOldBackups")
          /\ settings.backupRetentionDays = DefaultRetentionDays
          /\ settings.enableBackups /\ r2Service /\ bop'.clean )
        => LET deleted == DOMAIN markers \ DOMAIN markers'
               created == { k \in DOMAIN markers :
                              /\ markers[k].json
                              /\ \E t \in 0..MaxDay :
                                    markers[k].timestamp = replaceColonDot(toISOString(t)) }
           IN /\ \A k \in created :
                    instantOf(markers, k) < now - DefaultRetentionDays => k \in deleted
              /\ \A k \in deleted : instantOf(markers, k) < now - DefaultRetentionDays
              /\ bop'.count = Cardinality(deleted) ]_vars

\* C20 - backup create/list round trip: listBackups (every store call succeeding) returns
\* one {timestamp, folderPath} entry for every marker object under backups/ whose body
\* parses, ordered by timestamp descending, and skips the markers that do not parse.
C20_BackupListRoundTrip ==
    [][ (BackupReturned("listBackups") /\ r2Service /\ bop'.clean)
        => /\ bop'.count = Cardinality({ k \in DOMAIN markers : markers[k].json })
           /\ { bop'.list[i] : i \in DOMAIN bop'.list }
                 = { entryOf(k) : k \in { x \in DOMAIN markers : markers[x].json } }
           /\ \A i, j \in DOMAIN bop'.list :
                 i < j => parseDate(bop'.list[i].timestamp, TRUE)
                             >= parseDate(bop'.list[j].timestamp, TRUE) ]_vars

\* C21 - deleteBackup completeness: whenever deleteBackup(timestamp) returns success, no
\* object whose key starts with backups/<timestamp>/ remains in the bucket and every
\* object outside that prefix is still there; a failed object deletion is not reported
\* as success.
C21_DeleteBackupComplete ==
    [][ \A k \in DOMAIN markers :
          LET timestamp == markers[k].timestamp
              prefix == "backups/" \o timestamp \o "/"
          IN (DeleteBackup(timestamp) /\ bop'.ok)
             => /\ \A x \in DOMAIN markers' : ~startsWith(x, prefix)
                /\ \A x \in DOMAIN markers :
                      ~startsWith(x, prefix) => (x \in DOMAIN markers' /\ markers'[x] = markers[x]) ]_vars

\* DownloadSpec: one caller over vaults and buckets that hold what the download phase
\* treats specially: an empty object, an object no local file maps to (under the listing
\* prefix and outside it), objects under backups/, a base folder that holds a backups
\* folder and a file that is not a note or an image, and an object whose key is the base
\* folder (the key of a local file at that path)
DownloadScenarios ==
    { [ name |-> "MyVault", base |-> "",
        vault |-> [ q \in {"notes/a.md"} |-> "c1" ],
        bucket |-> [ k \in {"MyVault/notes/a.md"} |-> "" ] ],
      [ name |-> "MyVault", base |-> "",
        vault |-> [ q \in {"notes/a.md"} |-> "c1" ],
        bucket |-> [ k \in {"y.md", "MyVault/docs/y.md"} |-> "c2" ] ],
      [ name |-> "backups", base |-> "",
        vault |-> [ q \in {"a.md"} |-> "c1" ],
        bucket |-> [ k \in {"backups/day1/n.md"} |-> "c2" ] ],
      [ name |-> "MyVault", base |-> "Vault",
        vault |-> [ q \in {"Vault/backups/x.md", "Vault/prog.exe"} |-> "c1" ],
        bucket |-> EmptyMap ],
      [ name |-> "MyVault", base |-> "Vault",
        vault |-> [ q \in {"Vault"} |-> "c1" ],
        bucket |-> [ k \in {"Vault", "Vault/n.md"} |-> "c2" ] ],
      [ name |-> "MyVault", base |-> "",
        vault |-> ("a.md" :> "c1") @@ ("MyVault/MyVault/a.md" :> "c2"),
        bucket |-> EmptyMap ] }

DownloadInit ==
    /\ \E sc \in DownloadScenarios, bidi \in BOOLEAN :
          InitEngine(sc.name, sc.base, bidi, TRUE, sc.vault, sc.bucket)
    /\ InitMapIdle
    /\ recording = TRUE

DownloadNext ==
    \/ Engine(1)
    \/ \E file \in DOMAIN local : OnVaultDelete(file)

DownloadSpec == DownloadInit /\ [][DownloadNext]_vars

\* the local files the download phase of the running pass created
createdByDownload == writes \ DOMAIN snap.local

\* C22 - phase ordering in syncAllFiles: with bidirectional sync, no put is issued while
\* the download phase runs, the upload phase creates or modifies no local file, and every
\* file the download phase created is in the list the upload phase enumerates.
C22_PhaseOrdering ==
    /\ [](\A p \in Procs :
            (pc[p] \in {"dl_list", "dl_key"} /\ ctx[p].op = "syncAllFiles" /\ ~dirty)
            => puts = {})
    /\ [][ \A p \in Procs :
             /\ (pc[p] \in {"up_enum", "up_file"} /\ ~dirty')
                   => (writes' = writes /\ local' = local)
             /\ (pc[p] = "up_enum" /\ pc'[p] = "up_file" /\ settings.bidirectionalSync
                   /\ snap.valid /\ ~dirty)
                   => createdByDownload \subseteq ctx'[p].filesLeft ]_vars

\* the step of caller p is the iteration of the download loop on remoteKey
DownloadStepOn(p, remoteKey) ==
    /\ pc[p] = "dl_key"
    /\ remoteKey \in ctx[p].keysLeft
    /\ ctx'[p].keysLeft = ctx[p].keysLeft \ {remoteKey}

\* C23 - download decision per key: for a listed non-backup key whose mapped local file
\* exists and whose object was fetched, the download phase modifies the local file if
\* and only if the remote content differs from the local content, and the local content
\* equals the remote content afterwards; also for an empty object.
C23_DownloadDecision ==
    [][ \A p \in Procs : \A remoteKey \in DOMAIN remote :
          LET localPath == getLocalPathFromKey(remoteKey) IN
          ( /\ DownloadStepOn(p, remoteKey)
            /\ ctx'[p].ok
            /\ ~isBackupKey(remoteKey)
            /\ localPath \in DOMAIN local )
          => /\ (local' # local) <=> (remote[remoteKey] # local[localPath])
             /\ local'[localPath] = remote[remoteKey] ]_vars

\* no local file of the vault v has the key remoteKey
Unmapped(v, remoteKey) == \A path \in DOMAIN v : getFileKey(path) # remoteKey

\* C24 - CreateLocal: after a full pass with bidirectional sync, every call succeeding and
\* nothing changed from outside, every non-backup object with content that no local file
\* mapped to when the pass began has a local file at its mapped path with the remote
\* content, every parent folder of which exists.
C24_CreateLocal ==
    (CleanFullPass /\ settings.bidirectionalSync)
    => \A remoteKey \in DOMAIN snap.remote :
          LET localPath == getLocalPathFromKey(remoteKey) IN
          ( /\ ~isBackupKey(remoteKey)
            /\ snap.remote[remoteKey] # ""
            /\ Unmapped(snap.local, remoteKey)
            /\ localPath \notin DOMAIN snap.local )
          => /\ localPath \in DOMAIN local
             /\ local[localPath] = snap.remote[remoteKey]
             /\ Dirs(localPath) \subseteq folders

\* C25 - backup keys are excluded from download: the iteration of the download loop on a
\* key that starts with backups/ calls downloadFile for no key and leaves the vault as it
\* is, and downloadFile is never called with such a key.
C25_BackupKeysExcluded ==
    /\ [](\A p \in Procs : \A k \in ctx[p].gets : ~startsWith(k, "backups/"))
    /\ [][ \A p \in Procs : \A remoteKey \in ctx[p].keysLeft :
             (DownloadStepOn(p, remoteKey) /\ startsWith(remoteKey, "backups/"))
             => /\ ctx'[p].gets = ctx[p].gets
                /\ UNCHANGED <<local, folders, writes>> ]_vars

\* the listing returned objects under backups/ (the vault is named "backups"), the loop
\* has gone through all of them, and nothing was fetched or written
C25_Witness ==
    \E p \in Procs :
        /\ pc[p] = "dl_key"
        /\ ctx[p].keysLeft = {}
        /\ ctx[p].ok
        /\ snap.valid /\ ~dirty /\ snap.remote = remote
        /\ \E k \in listFiles(effectiveBase(settings.baseFolder, vaultName)) :
              startsWith(k, "backups/")
        /\ ctx[p].gets = {}
        /\ local = snap.local

\* C26 - disjoint key namespaces: no step of syncFile, syncAllFiles, syncMissingFiles or
\* deleteRemoteForFile issues a put for a key that starts with backups/, or writes or
\* deletes an object with such a key.
C26_DisjointNamespaces ==
    [][ /\ \A put \in puts' \ puts : ~startsWith(put[1], "backups/")
        /\ \A k \in DOMAIN remote \cup DOMAIN remote' :
              startsWith(k, "backups/")
              => /\ k \in DOMAIN remote /\ k \in DOMAIN remote'
                 /\ remote'[k] = remote[k] ]_vars

\* the local paths that have the key k
pathsOfKey(k) == { path \in DOMAIN local : getFileKey(path) = k }

\* the eligibility filter as documented: allow-listed extension, outside the plugin's
\* configuration directory and backups/, and inside a base folder that differs from the
\* vault name
Eligible(path) ==
    /\ isSupportedFile(path)
    /\ ~startsWith(path, configDir \o "/")
    /\ ~startsWith(path, "backups/")
    /\ (settings.baseFolder # "" /\ settings.baseFolder # vaultName)
          => (startsWith(path, settings.baseFolder \o "/") \/ path = settings.baseFolder)

\* C27 - eligibility filter: every put that syncAllFiles or syncMissingFiles issues is
\* for a local file that passes the documented filter.
C27_EligibilityFilter ==
    [][ \A p \in Procs :
          (pc[p] \in {"up_file", "sm_file"})
          => \A put \in puts' \ puts :
                \E path \in pathsOfKey(put[1]) : Eligible(path) /\ local[path] = put[2] ]_vars

\* the step is the vault's delete event for file, deleteRemoteForFile(file) included
DeleteStepOf(file) ==
    /\ file \in DOMAIN local
    /\ DOMAIN local' = DOMAIN local \ {file}

\* C28 - deleteRemoteForFile is unguarded and allow-listed: with the store configured, for
\* a file with an allow-listed extension deleteFile is issued for the file's key, while a
\* pass is in flight as well as when none is, and a successful delete leaves no object at
\* the key; for any other file false is returned and nothing is issued or deleted; in
\* both cases the in-flight guard and lastSyncTime stay as they are.
C28_DeleteUnguardedAllowListed ==
    [][ \A file \in DOMAIN local :
          (DeleteStepOf(file) /\ r2Service)
          => /\ UNCHANGED <<syncInProgress, lastSyncTime>>
             /\ lastDelete'.file = file
             /\ lastDelete'.inflight = syncInProgress
             /\ IF isSupportedFile(file)
                THEN /\ lastDelete'.issued
                     /\ lastDelete'.key = getFileKey(file)
                     /\ lastDelete'.ret => getFileKey(file) \notin DOMAIN remote'
                     /\ \A k \in DOMAIN remote \ {getFileKey(file)} :
                           k \in DOMAIN remote' /\ remote'[k] = remote[k]
                ELSE /\ ~lastDelete'.issued
                     /\ ~lastDelete'.ret
                     /\ remote' = remote ]_vars

\* a file was deleted while a pass held the guard: the delete was issued and removed the
\* object, and the pass still holds the guard
C28_Witness ==
    /\ lastDelete.inflight
    /\ lastDelete.issued
    /\ lastDelete.ret
    /\ lastDelete.key \notin DOMAIN remote
    /\ syncInProgress
    /\ \E p \in Procs : pc[p] \in {"up_file", "dl_key", "sf_upload", "sm_file"}

\* C29 - deletion interleaved with a pass: when a file of the upload list of a running
\* syncAllFiles was deleted (deleteRemoteForFile succeeded), the iteration of the upload
\* loop on that file, with no other failure, puts nothing back at the file's key and
\* leaves the pass running on its remaining files; and once the pass and the delete have
\* completed, no object is at the key of the deleted file.
C29_DeleteDuringPass ==
    /\ [][ \A p \in Procs : \A file \in ctx[p].filesLeft :
             ( /\ pc[p] = "up_file"
               /\ ctx[p].op = "syncAllFiles"
               /\ lastDelete.inflight /\ lastDelete.ret /\ lastDelete.file = file
               /\ file \notin DOMAIN local
               /\ UploadOne(p, file, "ok", TRUE) )
             => /\ pc'[p] = "up_file"
                /\ ctx'[p].filesLeft = ctx[p].filesLeft \ {file}
                /\ lastDelete.key \notin DOMAIN remote' ]_vars
    /\ [](\A p \in Procs :
            ( /\ pc[p] = "done"
              /\ last.op \in {"syncAllFiles", "syncFile"}
              /\ lastDelete.inflight /\ lastDelete.ret
              /\ dirty )
            => lastDelete.key \notin DOMAIN remote)

\* SubStepSpec: the callers of the SyncManager, some of which call downloadRemoteChanges
\* on its own, with and without credentials and bidirectional sync
SubStepInit ==
    /\ \E bidi \in BOOLEAN, creds \in BOOLEAN,
          b \in { EmptyMap, [ k \in {"MyVault/notes/a.md"} |-> "c2" ] } :
          InitEngine("MyVault", "", bidi, creds, [ q \in {"notes/a.md"} |-> "c1" ], b)
    /\ InitMapIdle
    /\ recording = FALSE

SubStepNext ==
    \E p \in Procs :
        \/ Engine(p)
        \/ DownloadRemoteChangesCall(p)

SubStepSpec == SubStepInit /\ [][SubStepNext]_vars

\* the step is one of caller p
StepOf(p) == pc'[p] # pc[p] \/ ctx'[p] # ctx[p]

\* C30 - downloadRemoteChanges leaves the guard alone: no step of it sets or clears the
\* in-flight guard; as a sub-step of syncAllFiles the guard is held from the listing of the
\* download phase to the last put of the upload phase; downloadAndSync holds the guard
\* around it and clears it on return; and with bidirectional sync disabled or no store
\* configured it returns false with no store call and no local write.
C30_DownloadLeavesGuard ==
    /\ [](\A p \in Procs :
            ( /\ pc[p] \in {"dl_list", "dl_key", "up_enum", "up_file"}
              /\ ctx[p].op \in {"syncAllFiles", "downloadAndSync"} )
            => syncInProgress)
    /\ [][ \A p \in Procs :
             /\ ( /\ pc[p] \in {"dl_list", "dl_key"}
                  /\ StepOf(p)
                  /\ ~(ctx[p].op = "downloadAndSync" /\ pc'[p] = "done") )
                   => syncInProgress' = syncInProgress
             /\ (pc[p] = "dl_key" /\ ctx[p].op = "downloadAndSync" /\ pc'[p] = "done")
                   => ~syncInProgress'
             /\ (DownloadRemoteChangesCall(p) /\ (~r2Service \/ ~settings.bidirectionalSync))
                   => /\ pc'[p] = "rejected"
                      /\ result'[p] = FALSE
                      /\ UNCHANGED <<remote, local, folders, ctx, syncInProgress, lastSyncTime>>
             /\ (pc[p] = "idle" /\ pc'[p] \in {"dl_list", "dl_key"})
                   => (r2Service /\ settings.bidirectionalSync) ]_vars

\* a full pass went through its download phase (an object was fetched) and has put a
\* file, the guard held; meanwhile another caller ran downloadRemoteChanges on its own
C30_Witness ==
    \E p, q \in Procs :
        /\ p # q
        /\ pc[p] = "up_file"
        /\ ctx[p].op = "syncAllFiles"
        /\ ctx[p].gets # {}
        /\ ctx[p].successCount > 0
        /\ syncInProgress
        /\ pc[q] = "done"
        /\ result[q]
        /\ last.op = "none"

\* C31 - key equal to the base folder: the iteration of the download loop on a listed key
\* that equals the base folder (it maps to the empty path), the get and the vault
\* answering, creates or modifies no local file, does not fail the download phase, and
\* leaves the remaining keys of the listing to be processed.
C31_KeyEqualBase ==
    [][ \A p \in Procs :
          LET baseFolder == effectiveBase(settings.baseFolder, vaultName) IN
          ( /\ pc[p] = "dl_key"
            /\ baseFolder \in ctx[p].keysLeft
            /\ getLocalPathFromKey(baseFolder) = ""
            /\ DownloadOne(p, baseFolder, TRUE, "ok") )
          => /\ UNCHANGED <<local, folders>>
             /\ ctx'[p].keysLeft = ctx[p].keysLeft \ {baseFolder}
             /\ ctx'[p].dlRet ]_vars

\* PluginSpec: the plugin with backups enabled, loaded with auto-sync and the backup hook
\* on or off; the user runs passes, toggles auto-sync and restarts the application. No
\* backup command is invoked, so a marker can only come from a pass.
PluginInit ==
    /\ \E bidi \in BOOLEAN, autoSync \in BOOLEAN, autoBackupOnSync \in BOOLEAN :
          InitPlugin("MyVault", "", bidi, TRUE, [ q \in {"notes/a.md"} |-> "c1" ], EmptyMap,
                     TRUE, DefaultRetentionDays, EmptyMap, autoSync, autoBackupOnSync)
    /\ InitMapIdle
    /\ recording = FALSE

PluginNext ==
    \/ Engine(1)
    \/ \E value \in BOOLEAN : SetAutoSync(value)
    \/ Restart

PluginSpec == PluginInit /\ [][PluginNext]_vars

\* C32 - pre-sync backup hook: with backups and autoBackupOnSync enabled, a syncAllFiles
\* pass that is not rejected has written a backup marker by the time of its first upload;
\* with autoBackupOnSync off no step of a pass writes a marker.
C32_PreSyncBackup ==
    /\ [][ \A p \in Procs :
             ( /\ settings.enableBackups /\ settings.autoBackupOnSync
               /\ pc[p] = "up_file"
               /\ ctx[p].op = "syncAllFiles"
               /\ ctx[p].successCount = 0
               /\ ctx'[p].successCount = 1 )
             => markers # EmptyMap ]_vars
    /\ [][ \A p \in Procs :
             (~settings.autoBackupOnSync /\ StepOf(p)) => markers' = markers ]_vars

\* C33 - a remote change is never overwritten unseen: with bidirectional sync on, the
\* upload phase of a syncAllFiles pass puts a file over a remote object of different
\* content only if the download phase of the same pass fetched that object and wrote it
\* to the file, whatever the listing and the gets returned.
C33_NoUnseenOverwrite ==
    [][ \A p \in Procs : \A file \in DOMAIN local :
          LET key == getFileKey(file) IN
          ( /\ settings.bidirectionalSync
            /\ pc[p] = "up_file"
            /\ ctx[p].op = "syncAllFiles"
            /\ file \in ctx[p].filesLeft
            /\ key \in DOMAIN remote
            /\ remote[key] # local[file]
            /\ UploadOne(p, file, "ok", TRUE) )
          => /\ key \in ctx[p].gets
             /\ file \in writes ]_vars

\* C34 - the persisted in-progress mirror matches the guard: settings.syncInProgress
\* equals SyncManager.syncInProgress in every reachable state, also after the settings
\* were saved during a pass and loaded again at the next start.
C34_MirrorMatchesGuard == mirror = syncInProgress

\* C35 - the key mapping is injective on the files of a pass: whatever the base folder,
\* a file that a pass uploads has a key that no other file selected by getFilesToSync
\* maps to, so no upload of a pass replaces the object of another file.
C35_KeyMappingInjective ==
    [][ \A p \in Procs : \A file \in DOMAIN local :
          ( /\ pc[p] = "up_file"
            /\ file \in ctx[p].filesLeft
            /\ UploadOne(p, file, "ok", TRUE) )
          => \A other \in getFilesToSync \ {file} : getFileKey(other) # getFileKey(file) ]_vars

\* EventSpec: the plugin loaded with auto-sync on or off over a base folder that is not the
\* vault name, with one file inside the base folder and one outside; the user edits and
\* deletes files, flips the Auto Sync toggle and restarts the application
EventInit ==
    /\ \E autoSync \in BOOLEAN :
          InitPlugin("MyVault", "Vault", FALSE, TRUE,
                     [ q \in {"Vault/x.md", "notes/a.md"} |-> "c1" ],
                     [ k \in {"x.md"} |-> "c1" ],
                     FALSE, DefaultRetentionDays, EmptyMap, autoSync, FALSE)
    /\ InitMapIdle
    /\ recording = FALSE

EventNext ==
    \/ \E file \in DOMAIN local, c \in Contents : OnModify(file, c)
    \/ \E file \in DOMAIN local : OnVaultDelete(file)
    \/ TimerFire
    \/ Tick
    \/ SyncFileUpload(DebounceProc)
    \/ Return(DebounceProc)
    \/ \E value \in BOOLEAN : SetAutoSync(value)
    \/ Restart

EventSpec == EventInit /\ [][EventNext]_vars

\* C36 - auto-sync off means no event-driven sync: while settings.autoSync is off, also
\* when it was switched off after a load with it on, no step schedules a single-file
\* upload and no deletion of a local file removes an object of the bucket.
C36_AutoSyncOff ==
    [][ ~settings.autoSync =>
          /\ calls' = calls
          /\ timers' \subseteq timers
          /\ \A file \in DOMAIN local : DeleteStepOf(file) => remote' = remote ]_vars

\* C37 - event-driven uploads respect the eligibility of a full pass: a syncFile started
\* by the timer of a modify / create event puts an object only for a file that
\* getFilesToSync selects, so a file outside the base folder is not uploaded under a key
\* relocated into it.
C37_EventEligibility ==
    [][ ( /\ pc[DebounceProc] = "sf_upload"
          /\ pc'[DebounceProc] = "done"
          /\ result'[DebounceProc] )
        => ctx[DebounceProc].file \in getFilesToSync ]_vars

====
